---- MODULE Spec2Model ----
(***************************************************************************)
(* SmartSalesForecast: the model object of app/services/ml_service.py      *)
(* (SalesForecastModel: train, predict, save, load), the feature           *)
(* preparation of app/services/data_service.py and the /predict, /retrain  *)
(* and /model_info handlers of app/api/routes.py.                          *)
(*                                                                         *)
(* Optional Python values are sequences: None is <<>>, a value v is <<v>>. *)
(* A DataFrame is the ordered list of its column names plus, for the       *)
(* one-row prediction frame, the value of each column.                     *)
(***************************************************************************)
EXTENDS Integers, Sequences, FiniteSets, TLC

\* ---------------------------------------------------------------- bounds
MaxProduct == 3
MaxMonths == 5
MaxClock == 2
MaxCols == 3
MaxMissing == 1
MaxRaw == 30
MaxR2 == 24
MaxRows == 11

\* ------------------------------------------------------ program constants
MinTrainRows == 10
DefaultQuantityFactor == 10

None == <<>>
Some(v) == <<v>>
Range(s) == {s[i] : i \in 1..Len(s)}
Restrict(f, S) == [k \in S |-> f[k]]

\* ------------------------------------------------------------ data source
\* The products table: product p belongs to category p and to supplier
\* (p+1) \div 2, so products 1 and 2 share supplier 1.
ProductIds == 1..MaxProduct
ProductTable ==
  [p \in ProductIds |->
     [product_id |-> p, category_id |-> p, supplier_id |-> (p + 1) \div 2,
      unit_price |-> 10 * p]]
CategoryIds == {ProductTable[p].category_id : p \in ProductIds}
SupplierIds == {ProductTable[p].supplier_id : p \in ProductIds}
BaseYear == 2024

\* The order lines: the products that were sold (the first k products) and
\* the number of months (1..months of BaseYear) in which each of them was sold;
\* up is FALSE while the database cannot be reached, so that every query raises.
DbStates ==
  {[sold |-> 1..k, months |-> MaxMonths, up |-> TRUE] : k \in 0..MaxProduct} \cup
  {[sold |-> ProductIds, months |-> MaxMonths - 2, up |-> TRUE],
   [sold |-> ProductIds, months |-> MaxMonths, up |-> FALSE]}

get_product(p) ==
  IF p \in ProductIds THEN Some(ProductTable[p]) ELSE None

\* astype(str) of an integer id column
Str(i) == ToString(i)

\* get_sales_data: the order lines, one per sold product and month, the ids
\* as strings (astype(str)); when the query raises, the except branch of lines
\* 139-141 returns an empty frame.
get_sales_data(d) ==
  IF ~d.up THEN {}
  ELSE {[product_id |-> Str(p),
         category_id |-> Str(ProductTable[p].category_id),
         supplier_id |-> Str(ProductTable[p].supplier_id),
         year |-> BaseYear, month |-> m] : p \in d.sold, m \in 1..d.months}

\* get_monthly_sales_summary: one row per (product, category, supplier, year,
\* month) group of the order lines; empty when they are.
get_monthly_sales_summary(d) ==
  LET sales_df == get_sales_data(d)
  IN {[product_id |-> r.product_id, category_id |-> r.category_id,
       supplier_id |-> r.supplier_id, year |-> r.year, month |-> r.month] :
        r \in sales_df}

\* ------------------------------------------------------- column encoding
RECURSIVE SortedSeq(_)
SortedSeq(S) ==
  IF S = {} THEN <<>>
  ELSE LET m == CHOOSE x \in S : \A y \in S : x <= y
       IN <<m>> \o SortedSeq(S \ {m})

StartsWith(s, p) == Len(s) >= Len(p) /\ SubSeq(s, 1, Len(p)) = p

\* pd.get_dummies(column, prefix=col): one column "<prefix>_<value>" per
\* distinct value, in sorted order of the values.
get_dummies(ids, prefix) ==
  LET vs == SortedSeq(ids)
  IN [i \in 1..Len(vs) |-> prefix \o "_" \o Str(vs[i])]

DropColumn(cols, c) == SelectSeq(cols, LAMBDA x : x # c)

SummaryColumns ==
  <<"product_id", "category_id", "supplier_id", "year", "month",
    "total_quantity", "total_revenue", "avg_price">>
BaseFeatureCols == <<"product_id", "year", "month", "total_revenue", "avg_price">>

IsIndicatorName(c) == StartsWith(c, "category_") \/ StartsWith(c, "supplier_")

\* prepare_training_data: None for an empty summary, else the feature table
\* X (its ordered columns and its row count).
prepare_training_data(d) ==
  LET rows == get_monthly_sales_summary(d)
      cats == {ProductTable[p].category_id : p \in d.sold}
      sups == {ProductTable[p].supplier_id : p \in d.sold}
      c1 == DropColumn(SummaryColumns \o get_dummies(cats, "category_id"),
                       "category_id")
      c2 == DropColumn(c1 \o get_dummies(sups, "supplier_id"), "supplier_id")
      feature_cols == BaseFeatureCols \o SelectSeq(c2, IsIndicatorName)
  IN IF rows = {} THEN None
     ELSE Some([columns |-> feature_cols, nrows |-> Cardinality(rows)])

\* ------------------------------------------------- prediction features
\* A one-row frame: cols is the column order, val the value of each column.
Frame(cols, val) == [cols |-> cols, val |-> val]

RECURSIVE PutAll(_, _, _)
\* features[name(i)] = value(i) for the ids of a Python set, in id order
PutAll(frame, names, vals) ==
  IF names = <<>> THEN frame
  ELSE LET n == Head(names)
           cols == IF n \in Range(frame.cols) THEN frame.cols
                   ELSE Append(frame.cols, n)
           val == [k \in Range(cols) |->
                     IF k = n THEN Head(vals) ELSE frame.val[k]]
       IN PutAll(Frame(cols, val), Tail(names), Tail(vals))

\* The historical average revenue of a product that has order lines.
HistAvgRevenue(p) == ProductTable[p].unit_price * 2

\* prepare_prediction_features, lines 286-349: the features of the product
\* and of the date. hist is the outcome of the AVG query ("fails" when it
\* raises); the query answers one row even for a product without order lines,
\* whose NULL average line 311 turns into 0.
ProductFeatures(d, p, month, quantity, hist) ==
  LET product == ProductTable[p]
      cs == SortedSeq(CategoryIds)
      ss == SortedSeq(SupplierIds)
      avg_revenue ==
        IF hist = "fails" THEN product.unit_price * DefaultQuantityFactor
        ELSE IF p \in d.sold THEN HistAvgRevenue(p) ELSE 0
      total_revenue ==
        IF quantity # None THEN product.unit_price * quantity[1]
        ELSE avg_revenue
      base == PutAll(Frame(<<>>, <<>>),
                <<"product_id", "year", "month", "avg_price", "total_revenue",
                  "category_id", "supplier_id">>,
                <<p, BaseYear, month, product.unit_price, total_revenue,
                  product.category_id, product.supplier_id>>)
      withCat == PutAll(base,
                   [i \in 1..Len(cs) |-> "category_" \o ToString(cs[i])],
                   [i \in 1..Len(cs) |->
                      IF cs[i] = product.category_id THEN 1 ELSE 0])
      withSup == PutAll(withCat,
                   [i \in 1..Len(ss) |-> "supplier_" \o ToString(ss[i])],
                   [i \in 1..Len(ss) |->
                      IF ss[i] = product.supplier_id THEN 1 ELSE 0])
  IN withSup

\* prepare_prediction_features with customer_country set to 0 when the
\* customer lookup raises
prepare_prediction_featuresDefaultCountry(d, p, month, quantity, hist, cust) ==
  LET features == ProductFeatures(d, p, month, quantity, hist)
  IN IF cust[1] = "found"
       THEN PutAll(features, <<"customer_country">>, <<cust[2]>>)
     ELSE IF cust[1] = "fails"
       THEN PutAll(features, <<"customer_country">>, <<0>>)
     ELSE features

\* prepare_prediction_features for an existing product. cust is the outcome
\* of the optional customer lookup of lines 352-364: <<"none">> (no
\* customer_id), <<"missing">>, <<"fails">> (it raises, caught at line 361) or
\* <<"found", h>> with h the bucket hash(country) % 10.
prepare_prediction_features(d, p, month, quantity, hist, cust) ==
  LET features == ProductFeatures(d, p, month, quantity, hist)
  IN IF cust[1] # "found" THEN features
     ELSE PutAll(features, <<"customer_country">>, <<cust[2]>>)

\* ------------------------------------------------------ reconciliation
\* predict, line 147: keep the request columns that the schema names
KeepKnown(X, features) ==
  LET cols == SelectSeq(X.cols, LAMBDA c : c \in Range(features))
  IN Frame(cols, Restrict(X.val, Range(cols)))

RECURSIVE PadMissingOnes(_, _)
\* PadMissing filling the added columns with 1
PadMissingOnes(X, features) ==
  IF features = <<>> THEN X
  ELSE LET f == Head(features)
       IN IF f \in Range(X.cols) THEN PadMissingOnes(X, Tail(features))
          ELSE PadMissingOnes(PutAll(X, <<f>>, <<1>>), Tail(features))

RECURSIVE PadMissing(_, _)
\* predict, lines 150-152: add each schema column the frame lacks, as 0
PadMissing(X, features) ==
  IF features = <<>> THEN X
  ELSE LET f == Head(features)
       IN IF f \in Range(X.cols) THEN PadMissing(X, Tail(features))
          ELSE PadMissing(PutAll(X, <<f>>, <<0>>), Tail(features))

\* Reorder with line 155 left out: the frame keeps the order it has
ReorderSkipped(X, features) == Some(X)

\* predict, line 155: X[self.features]; a KeyError when a column is absent
Reorder(X, features) ==
  IF Range(features) \subseteq Range(X.cols)
  THEN Some(Frame(features, Restrict(X.val, Range(features))))
  ELSE None

\* predict, lines 145-155
Reconcile(X, features) ==
  Reorder(PadMissing(KeepKnown(X, features), features), features)

\* ------------------------------------------------------ the model object
\* SalesForecastModel.__init__
FreshModel ==
  [model |-> None, features |-> None, metrics |-> None,
   trained_date |-> None, model_type |-> "decision_tree"]

ValidModels == {"decision_tree", "linear", "knn", "logistic"}
\* the model_type values the callers pass: two known ones and an unknown one
RequestTypes == {"decision_tree", "knn", "bogus"}

\* The raw pipeline output, in tenths
RawOutputs == (0 - MaxRaw)..MaxRaw
\* The r2_score values a model can carry, in hundredths
R2Scores == {5 * k : k \in (0 - MaxR2)..MaxR2}

\* r2_score of the fit on the held-out split, in hundredths. With the fixed
\* random_state it is a function of the data and of the regressor; the values
\* stand for a perfect tree, a poor knn and a middling linear fit.
r2_score(X, mt) ==
  IF mt = "decision_tree" THEN 99
  ELSE IF mt = "knn" THEN 0 - X[1].nrows
  ELSE 70

\* Pipeline([scaler, regressor]); fitted_on is None until fit() has run
NewPipeline(mt) == [regressor |-> mt, fitted_on |-> None]

\* train, line 49
SetModelType(o, mt) == [o EXCEPT !.model_type = mt]
\* The size check with <= in place of <
InsufficientDataOffByOne(X) == X = None \/ X[1].nrows <= MinTrainRows

\* train, line 57
InsufficientData(X) == X = None \/ X[1].nrows < MinTrainRows
\* train, line 61
SetFeatures(o, X) == [o EXCEPT !.features = Some(X[1].columns)]
\* train, lines 77-86
KnownModelType(mt) == mt \in ValidModels
\* train, line 95
AssignPipeline(o, mt) == [o EXCEPT !.model = Some(NewPipeline(mt))]
\* train, line 96: fit() mutates the pipeline object held in self.model
FitPipeline(o, X) ==
  [o EXCEPT !.model = Some([o.model[1] EXCEPT !.fitted_on = Some(X[1].columns)])]
\* train, lines 109-118
SetMetrics(o, X, mt) ==
  [o EXCEPT !.metrics =
     Some([r2_score |-> r2_score(X, mt), n_samples |-> X[1].nrows,
           model_type |-> mt])]
\* train, line 121
SetTrainedDate(o, t) == [o EXCEPT !.trained_date = Some(t)]

ArtifactKeys == {"model", "features", "metrics", "trained_date", "model_type"}
Absent == [kind |-> "absent"]
Garbage == [kind |-> "garbage"]
Dict(data) == [kind |-> "dict", data |-> data]

\* save with the model_type entry left at the constructor's default
saveDefaultType(o) ==
  Dict([model |-> o.model, features |-> o.features, metrics |-> o.metrics,
        trained_date |-> o.trained_date, model_type |-> "decision_tree"])

\* save: joblib.dump of the five fields under their keys
save(o) ==
  Dict([model |-> o.model, features |-> o.features, metrics |-> o.metrics,
        trained_date |-> o.trained_date, model_type |-> o.model_type])

\* train: the object after the call, what the call returned, and the
\* artifact it wrote (None when it wrote nothing).
train(o, d, mt, t) ==
  LET o1 == SetModelType(o, mt)
      X == prepare_training_data(d)
      o2 == SetFeatures(o1, X)
      o3 == FitPipeline(AssignPipeline(o2, mt), X)
      o4 == SetTrainedDate(SetMetrics(o3, X, mt), t)
  IN IF InsufficientData(X)
       THEN [obj |-> o1, ret |-> "insufficient_data", written |-> None]
     ELSE IF ~KnownModelType(mt)
       THEN [obj |-> o2, ret |-> "unknown_model_type", written |-> None]
     ELSE [obj |-> o4, ret |-> "ok", written |-> Some(save(o4))]

\* load with data.get('trained_date') in place of data['trained_date']
loadDateOptional(o, a) ==
  IF a.kind # "dict" THEN [obj |-> o, ok |-> FALSE]
  ELSE
    LET has(k) == k \in DOMAIN a.data
        o1 == [o EXCEPT !.model = a.data.model]
        o2 == [o1 EXCEPT !.features = a.data.features]
        o3 == [o2 EXCEPT !.metrics = a.data.metrics]
        o4 == [o3 EXCEPT !.trained_date =
                 IF has("trained_date") THEN a.data.trained_date ELSE None]
        o5 == [o4 EXCEPT !.model_type =
                 IF has("model_type") THEN a.data.model_type
                 ELSE "decision_tree"]
    IN IF ~has("model") THEN [obj |-> o, ok |-> FALSE]
       ELSE IF ~has("features") THEN [obj |-> o1, ok |-> FALSE]
       ELSE IF ~has("metrics") THEN [obj |-> o2, ok |-> FALSE]
       ELSE [obj |-> o5, ok |-> TRUE]

\* load: the assignments run in order and stop at the first missing key
\* (KeyError, caught); model_type alone has a default.
load(o, a) ==
  IF a.kind # "dict" THEN [obj |-> o, ok |-> FALSE]
  ELSE
    LET has(k) == k \in DOMAIN a.data
        o1 == [o EXCEPT !.model = a.data.model]
        o2 == [o1 EXCEPT !.features = a.data.features]
        o3 == [o2 EXCEPT !.metrics = a.data.metrics]
        o4 == [o3 EXCEPT !.trained_date = a.data.trained_date]
        o5 == [o4 EXCEPT !.model_type =
                 IF has("model_type") THEN a.data.model_type
                 ELSE "decision_tree"]
    IN IF ~has("model") THEN [obj |-> o, ok |-> FALSE]
       ELSE IF ~has("features") THEN [obj |-> o1, ok |-> FALSE]
       ELSE IF ~has("metrics") THEN [obj |-> o2, ok |-> FALSE]
       ELSE IF ~has("trained_date") THEN [obj |-> o3, ok |-> FALSE]
       ELSE [obj |-> o5, ok |-> TRUE]

\* The guard with the test of self.model left out: the artifact is read anew
ReloadAlways(o, a) == load(o, a)

\* "if model.model is None: model.load()" (predict lines 138-139, routes lines
\* 217-218 and 379-380): the artifact is read only by an object without a
\* pipeline
EnsureLoaded(o, a) ==
  IF o.model = None THEN load(o, a) ELSE [obj |-> o, ok |-> TRUE]

\* The artifact files the process can find at start: none, an unreadable one,
\* and a dictionary holding any subset of the keys of an earlier save.
OldDb == [sold |-> ProductIds, months |-> MaxMonths, up |-> TRUE]
OldArtifact == train(FreshModel, OldDb, "linear", 0).written[1]
InitialArtifacts ==
  {Absent, Garbage} \cup
  {Dict(Restrict(OldArtifact.data, S)) :
     S \in {T \in SUBSET ArtifactKeys : Cardinality(ArtifactKeys \ T) <= MaxMissing}}

\* The object of a process that has loaded OldArtifact
LoadedOldModel == load(FreshModel, OldArtifact).obj

\* Pipeline.predict: needs a fitted pipeline and the columns it was fitted on
PipelinePredictOk(p, cols) == p.fitted_on # None /\ p.fitted_on[1] = cols

\* predict keeping the columns of the request frame as the schema
predictAdoptsColumns(o, a, X) ==
  LET o1 == [EnsureLoaded(o, a).obj EXCEPT !.features = Some(X.cols)]
  IN IF o1.model = None THEN [obj |-> o1, vector |-> None, out |-> "none"]
     ELSE IF ~PipelinePredictOk(o1.model[1], X.cols)
       THEN [obj |-> o1, vector |-> Some(X), out |-> "raised"]
     ELSE [obj |-> o1, vector |-> Some(X), out |-> "ok"]

\* predict (ml_service): the object after the call (load may have run), the
\* frame handed to the pipeline, and the outcome: "none" (no model), "raised"
\* or "ok".
predict(o, a, X) ==
  LET l == EnsureLoaded(o, a)
      o1 == l.obj
      R == IF o1.features # None THEN Reconcile(X, o1.features[1]) ELSE Some(X)
  IN IF o1.model = None THEN [obj |-> o1, vector |-> None, out |-> "none"]
     ELSE IF R = None THEN [obj |-> o1, vector |-> None, out |-> "raised"]
     ELSE IF ~PipelinePredictOk(o1.model[1], R[1].cols)
       THEN [obj |-> o1, vector |-> R, out |-> "raised"]
     ELSE [obj |-> o1, vector |-> R, out |-> "ok"]

\* round(): half to even, on a non-negative number of tenths
Round(tenths) ==
  LET q == tenths \div 10
      r == tenths % 10
  IN IF r < 5 THEN q
     ELSE IF r > 5 THEN q + 1
     ELSE IF q % 2 = 0 THEN q ELSE q + 1
Max(a, b) == IF a >= b THEN a ELSE b
Min(a, b) == IF a <= b THEN a ELSE b

\* Confidence with the stored r2_score handed out as it is
ConfidenceUnclamped(o) ==
  IF o.metrics # None /\ "r2_score" \in DOMAIN o.metrics[1]
  THEN o.metrics[1].r2_score
  ELSE 80

\* predict_sales, lines 262-266 (hundredths)
Confidence(o) ==
  IF o.metrics # None /\ "r2_score" \in DOMAIN o.metrics[1]
  THEN Max(50, Min(95, o.metrics[1].r2_score))
  ELSE 80
\* PredictedQuantity without the max(0, .) of line 272
PredictedQuantityUnclamped(raw) == Round(raw)

\* predict_sales, lines 272-273
PredictedQuantity(raw) == Round(Max(0, raw))

\* ------------------------------------------------------------- the state
VARIABLES
  db,        \* the order lines in the database
  model,     \* routes.model, the process-wide SalesForecastModel
  artifact,  \* the file at MODEL_PATH
  now,       \* datetime.now(), a counter
  last,      \* the last operation: what it was given and what it answered
  tpc, tloc, \* a /retrain request running in its own worker thread
  ppc, ploc, \* a /predict request running in its own worker thread
  rX, rF, rOut, \* one call of the reconciliation step: frame, schema, result
  aIn, aOut, \* one answer of /predict: raw output and metrics, response body
  cIn, cOut, \* one extraction: the rows fetched, the frame get_sales_data built
  cSum       \* and the monthly summary of that frame

vars == <<db, model, artifact, now, last, tpc, tloc, ppc, ploc, rX, rF, rOut,
          aIn, aOut, cIn, cOut, cSum>>
threadVars == <<tpc, tloc, ppc, ploc>>
reconVars == <<rX, rF, rOut>>
pureVars == <<aIn, aOut, cIn, cOut, cSum>>

\* The values of the variables a specification does not use.
NoThreads == tpc = "off" /\ tloc = None /\ ppc = "off" /\ ploc = None
NoReconcile == rX = None /\ rF = None /\ rOut = None
NoAnswer == aIn = None /\ aOut = None
NoExtraction == cIn = None /\ cOut = None /\ cSum = None

\* op: the operation; arg: the model_type it was given; product: the product
\* id it was given; status: the HTTP status; load: whether load() ran and what
\* it returned; ret: what train returned; vector: the frame handed to the
\* pipeline; obj: the SalesForecastModel of a script run when it returned;
\* req: the /predict request; X: the frame prepare_prediction_features
\* returned for it.
Outcome(op, arg, product, status, loaded, ret, vector, obj) ==
  [op |-> op, arg |-> arg, product |-> product, status |-> status,
   load |-> loaded, ret |-> ret, vector |-> vector, obj |-> obj,
   req |-> None, X |-> None, rows |-> None]

Init ==
  /\ db \in DbStates
  /\ model = FreshModel
  /\ artifact \in InitialArtifacts
  /\ now = 1
  /\ last = Outcome("start", "", 0, 0, "skipped", "", None, None)
  /\ NoThreads
  /\ NoReconcile
  /\ NoAnswer /\ NoExtraction

\* The effect of a train call on the artifact and on the clock. disk is
\* FALSE when MODEL_PATH cannot be written: joblib.dump in save (line 124 of
\* train) raises, after the fields of the object have been assigned.
Written(T, disk) ==
  IF T.written # None /\ disk THEN T.written[1] ELSE artifact
Stamped(T) == IF T.ret = "ok" THEN now + 1 ELSE now
Returned(T, disk) == IF T.ret = "ok" /\ ~disk THEN "save_raised" ELSE T.ret

\* POST /retrain (routes.retrain_model); an exception of train is answered
\* at line 364
Retrain(mt, disk) ==
  IF mt \notin ValidModels
  THEN /\ last' = Outcome("retrain", mt, 0, 400, "skipped", "invalid_model_type",
                          None, None)
       /\ UNCHANGED <<db, model, artifact, now, threadVars, reconVars, pureVars>>
  ELSE LET T == train(model, db, mt, now)
           ret == Returned(T, disk)
       IN /\ T.ret = "ok" => now < MaxClock
          /\ model' = T.obj
          /\ artifact' = Written(T, disk)
          /\ now' = Stamped(T)
          /\ last' = Outcome("retrain", mt, 0,
                             IF ret = "ok" THEN 200
                             ELSE IF ret = "save_raised" THEN 500 ELSE 400,
                             "skipped", ret, None, None)
          /\ UNCHANGED <<db, threadVars, reconVars, pureVars>>

\* scripts/train_model.train_model(model_type): another process, a fresh
\* SalesForecastModel, the same database and the same MODEL_PATH.
CliTrain(mt, disk) ==
  LET T == train(FreshModel, db, mt, now)
  IN /\ T.ret = "ok" => now < MaxClock
     /\ artifact' = Written(T, disk)
     /\ now' = Stamped(T)
     /\ last' = Outcome("cli_train", mt, 0, 0, "skipped", Returned(T, disk), None,
                        Some(T.obj))
     /\ UNCHANGED <<db, model, threadVars, reconVars, pureVars>>

\* POST /predict (routes.predict_sales). prep is FALSE when a query of
\* prepare_prediction_features other than the two guarded ones raises. With
\* the database down, get_product at line 226 raises and line 288 answers.
PredictSales(p, month, quantity, hist, cust, prep) ==
  LET L == EnsureLoaded(model, artifact)
      loaded == IF model.model # None THEN "skipped"
                ELSE IF L.ok THEN "ok" ELSE "failed"
      req == [p |-> p, month |-> month, quantity |-> quantity, hist |-> hist,
              cust |-> cust, prep |-> prep]
      X == prepare_prediction_features(db, p, month, quantity, hist, cust)
      P == predict(L.obj, artifact, X)
      answer(status, obj, frame, vector) ==
        /\ model' = obj
        /\ last' = [Outcome("predict", "", p, status, loaded, "", vector, None)
                      EXCEPT !.req = Some(req), !.X = frame]
  IN /\ UNCHANGED <<db, artifact, now, threadVars, reconVars, pureVars>>
     /\ IF ~L.ok THEN answer(503, L.obj, None, None)
        ELSE IF ~db.up THEN answer(500, L.obj, None, None)
        ELSE IF get_product(p) = None THEN answer(404, L.obj, None, None)
        ELSE IF ~prep THEN answer(400, L.obj, None, None)
        ELSE IF P.out # "ok" THEN answer(500, P.obj, Some(X), P.vector)
        ELSE answer(200, P.obj, Some(X), P.vector)

\* GET /model_info (routes.get_model_info)
GetModelInfo ==
  LET L == EnsureLoaded(model, artifact)
      loaded == IF model.model # None THEN "skipped"
                ELSE IF L.ok THEN "ok" ELSE "failed"
      status == IF ~L.ok THEN 404
                ELSE IF L.obj.metrics = None THEN 500 ELSE 200
  IN /\ model' = L.obj
     /\ last' = Outcome("model_info", "", 0, status, loaded, "", None, None)
     /\ UNCHANGED <<db, artifact, now, threadVars, reconVars, pureVars>>

\* New order lines arrive (or old ones are removed) between two requests.
DbUpdate(d) ==
  /\ d # db
  /\ db' = d
  /\ last' = Outcome("db_update", "", 0, 0, "skipped", "", None, None)
  /\ UNCHANGED <<model, artifact, now, threadVars, reconVars, pureVars>>

\* ------------------------------------------------------ GET /sales_summary
\* A Python value with its type: the summary's id columns hold str values
\* (astype(str)), the query parameters are int.
PyStr(s) == [type |-> "str", val |-> s]
PyInt(i) == [type |-> "int", val |-> Str(i)]

\* Python ==, as the cells of an object column are compared with a scalar:
\* values of different types are unequal.
PyEq(a, b) == a.type = b.type /\ a.val = b.val

\* summary[summary[col] == id]
FilterEq(summary, col, id) == {r \in summary : PyEq(PyStr(r[col]), PyInt(id))}

SummaryFilters ==
  {[product_id |-> a, category_id |-> b] :
     a \in {None, Some(1), Some(MaxProduct)}, b \in {None, Some(1)}}

\* read_sales_summary without a date filter (year is None).
ReadSalesSummary(f) ==
  LET summary == get_monthly_sales_summary(db)
      byProduct == IF f.product_id # None
                   THEN FilterEq(summary, "product_id", f.product_id[1])
                   ELSE summary
      byCategory == IF f.category_id # None
                    THEN FilterEq(byProduct, "category_id", f.category_id[1])
                    ELSE byProduct
      status == IF summary = {} THEN 404
                ELSE IF byCategory = {} THEN 404 ELSE 200
      rows == IF status = 200 THEN Some(byCategory) ELSE None
  IN /\ last' = [Outcome("sales_summary", "", 0, status, "", "", None, None)
                   EXCEPT !.req = Some(f), !.rows = rows]
     /\ UNCHANGED <<db, model, artifact, now, threadVars, reconVars, pureVars>>

\* The serving process restarts: routes.model is constructed again.
Restart ==
  /\ model # FreshModel
  /\ model' = FreshModel
  /\ last' = Outcome("restart", "", 0, 0, "skipped", "", None, None)
  /\ UNCHANGED <<db, artifact, now, threadVars, reconVars, pureVars>>

\* The requests: every product without quantity and customer and with both,
\* a product id that does not exist, a request whose preparation fails, one
\* whose history query fails, one whose customer lookup fails, and one with
\* quantity 0.
UnknownProduct == MaxProduct + 1
PredictRequests ==
  {[p |-> p, month |-> 1, quantity |-> qc[1], hist |-> "ok", cust |-> qc[2],
    prep |-> TRUE] :
     p \in ProductIds, qc \in {<<None, <<"none">>>>, <<Some(3), <<"found", 7>>>>}}
  \cup {[p |-> UnknownProduct, month |-> 1, quantity |-> None, hist |-> "ok",
         cust |-> <<"none">>, prep |-> TRUE],
        [p |-> 1, month |-> 1, quantity |-> None, hist |-> "ok",
         cust |-> <<"none">>, prep |-> FALSE],
        [p |-> 1, month |-> 1, quantity |-> None, hist |-> "fails",
         cust |-> <<"none">>, prep |-> TRUE],
        [p |-> 2, month |-> 1, quantity |-> Some(3), hist |-> "ok",
         cust |-> <<"fails">>, prep |-> TRUE],
        [p |-> 1, month |-> 1, quantity |-> Some(0), hist |-> "ok",
         cust |-> <<"none">>, prep |-> TRUE]}

Next ==
  \/ \E mt \in RequestTypes, disk \in BOOLEAN : Retrain(mt, disk)
  \/ \E mt \in RequestTypes, disk \in BOOLEAN : CliTrain(mt, disk)
  \/ \E r \in PredictRequests :
       PredictSales(r.p, r.month, r.quantity, r.hist, r.cust, r.prep)
  \/ GetModelInfo
  \/ \E f \in SummaryFilters : ReadSalesSummary(f)
  \/ \E d \in DbStates : DbUpdate(d)
  \/ Restart

Spec == Init /\ [][Next]_vars

\* ---------------------------------------- the reconciliation step alone
\* Column names a request or a schema can hold, and the values of a column.
ReconNames == {"product_id", "category_1", "category_id_1", "customer_country"}
ReconValues == {0, 5}

\* The duplicate-free column lists of at most n names
ColumnLists(n) ==
  {cs \in UNION {[1..k -> ReconNames] : k \in 0..n} :
     \A i, j \in 1..Len(cs) : i # j => cs[i] # cs[j]}
ReconFrames ==
  UNION {{Frame(cs, v) : v \in [Range(cs) -> ReconValues]} :
           cs \in ColumnLists(MaxCols)}

InitReconcile ==
  /\ rX \in {Some(X) : X \in ReconFrames}
  /\ rF \in {Some(F) : F \in ColumnLists(MaxCols)}
  /\ rOut = None
  /\ db = OldDb /\ model = FreshModel /\ artifact = Absent /\ now = 1
  /\ last = Outcome("start", "", 0, 0, "skipped", "", None, None)
  /\ NoThreads
  /\ NoAnswer /\ NoExtraction

\* predict, lines 145-155, on the frame rX with self.features = rF
ReconcileCall ==
  /\ rOut = None
  /\ rOut' = Some(Reconcile(rX[1], rF[1]))
  /\ UNCHANGED <<db, model, artifact, now, last, threadVars, rX, rF, pureVars>>

NextReconcile == ReconcileCall

SpecReconcile == InitReconcile /\ [][NextReconcile]_vars

\* C1: whatever the request frame and the schema, the reconciliation step
\* does not fail, its result has exactly the schema's columns in the schema's
\* order, each column holds the request's value when the request names it and 0
\* otherwise, and no request column outside the schema survives.
ReconcileTotalAndExact ==
  rOut # None =>
    /\ rOut[1] # None
    /\ rOut[1][1].cols = rF[1]
    /\ DOMAIN rOut[1][1].val = Range(rF[1])
    /\ \A n \in Range(rF[1]) :
         rOut[1][1].val[n] =
           IF n \in Range(rX[1].cols) THEN rX[1].val[n] ELSE 0

\* C1 witness: a reconciled request that had a column outside the schema,
\* lacked a schema column, shared one with a non-zero value, and named the
\* shared columns in another order than the schema.
ReconcileWitness ==
  /\ rOut # None /\ rOut[1] # None
  /\ Range(rX[1].cols) \ Range(rF[1]) # {}
  /\ Range(rF[1]) \ Range(rX[1].cols) # {}
  /\ \E n \in Range(rF[1]) \cap Range(rX[1].cols) : rX[1].val[n] # 0
  /\ \E i, j \in 1..Len(rX[1].cols) :
       /\ i < j
       /\ \E k, l \in 1..Len(rF[1]) :
            k > l /\ rF[1][k] = rX[1].cols[i] /\ rF[1][l] = rX[1].cols[j]

\* ------------------------------------- the answer of /predict alone
\* The metrics a loaded model can carry: none, a dictionary without
\* r2_score, and a dictionary with any r2_score.
MetricsValues ==
  {None, Some([n_samples |-> MinTrainRows])} \cup
  {Some([r2_score |-> r, n_samples |-> MinTrainRows]) : r \in R2Scores}

InitAnswer ==
  /\ aIn \in {Some([raw |-> raw, metrics |-> m]) :
               raw \in RawOutputs, m \in MetricsValues}
  /\ aOut = None
  /\ db = OldDb /\ model = FreshModel /\ artifact = Absent /\ now = 1
  /\ last = Outcome("start", "", 0, 0, "skipped", "", None, None)
  /\ NoThreads
  /\ NoReconcile
  /\ NoExtraction

\* predict_sales, lines 262-282, for the raw output aIn.raw of a model whose
\* metrics are aIn.metrics
AnswerCall ==
  /\ aOut = None
  /\ aOut' = Some([predicted_quantity |-> PredictedQuantity(aIn[1].raw),
                   confidence |->
                     Confidence([LoadedOldModel EXCEPT !.metrics = aIn[1].metrics])])
  /\ UNCHANGED <<db, model, artifact, now, last, threadVars, reconVars, aIn,
                 cIn, cOut, cSum>>

NextAnswer == AnswerCall

SpecAnswer == InitAnswer /\ [][NextAnswer]_vars

\* C11: whatever the raw output of the pipeline, predicted_quantity is a
\* whole number that is not negative: 0 for a negative raw output, and
\* otherwise a whole number within one half of the raw output.
QuantityNonNegativeInteger ==
  aOut # None =>
    LET q == aOut[1].predicted_quantity
        raw == aIn[1].raw
    IN /\ q \in Nat
       /\ raw < 0 => q = 0
       /\ raw >= 0 => (10 * q - raw <= 5 /\ raw - 10 * q <= 5)

\* C11 witness: a negative raw output was answered with 0.
QuantityWitness ==
  aOut # None /\ aIn[1].raw < 0 /\ aOut[1].predicted_quantity = 0

\* C12: the confidence is within [0.5, 0.95]: the r2_score when that lies in
\* the interval, 0.5 below it, 0.95 above it, and 0.8 when the model has no
\* metrics or the metrics have no r2_score.
ConfidenceClamped ==
  aOut # None =>
    LET c == aOut[1].confidence
        m == aIn[1].metrics
    IN /\ c >= 50 /\ c <= 95
       /\ (m = None \/ "r2_score" \notin DOMAIN m[1]) => c = 80
       /\ (m # None /\ "r2_score" \in DOMAIN m[1]) =>
            LET r == m[1].r2_score
            IN c = IF r < 50 THEN 50 ELSE IF r > 95 THEN 95 ELSE r

\* C12 witness: a negative r2_score was answered with confidence 0.5.
ConfidenceWitness ==
  /\ aOut # None /\ aIn[1].metrics # None
  /\ "r2_score" \in DOMAIN aIn[1].metrics[1]
  /\ aIn[1].metrics[1].r2_score < 0
  /\ aOut[1].confidence = 50

\* ------------------------------------------- the extraction alone
\* A frame is the sequence of its rows, a row a record of Optional values.
\* quantity and unit_price are counted in halves and discount in eighths, and
\* the fetched values are even numbers, so that the median of an even number
\* of fetched values is a whole number.
DiscountOne == 8
NumericCols == {"quantity", "unit_price", "discount"}
CatCols == {"product_id", "category_id", "customer_id", "supplier_id"}

Col(df, c) == [i \in 1..Len(df) |-> df[i][c]]
IsNull(col) == {i \in 1..Len(col) : col[i] = None}
\* the values of a numeric column that are not missing
Values(col) ==
  LET present == SelectSeq(col, LAMBDA x : x # None)
  IN [i \in 1..Len(present) |-> present[i][1]]

RECURSIVE SumSeq(_)
SumSeq(vals) == IF vals = <<>> THEN 0 ELSE Head(vals) + SumSeq(Tail(vals))

\* the r-th smallest of vals
AtRank(vals, r) ==
  CHOOSE v \in Range(vals) :
    /\ Cardinality({i \in 1..Len(vals) : vals[i] < v}) < r
    /\ Cardinality({i \in 1..Len(vals) : vals[i] <= v}) >= r

\* Series.median(): skips missing values; NaN (None) when all are missing
Median(col) ==
  LET vals == Values(col)
      k == Len(vals)
  IN IF k = 0 THEN None
     ELSE IF k % 2 = 1 THEN Some(AtRank(vals, (k + 1) \div 2))
     ELSE Some((AtRank(vals, k \div 2) + AtRank(vals, k \div 2 + 1)) \div 2)

\* get_sales_data, lines 96-97
FillMedian(col) ==
  IF IsNull(col) = {} THEN col
  ELSE LET m == Median(col)
       IN [i \in 1..Len(col) |-> IF col[i] = None THEN m ELSE col[i]]

\* get_sales_data, lines 100-101
FixNonPositive(col) ==
  LET bad == {i \in 1..Len(col) : col[i] # None /\ col[i][1] <= 0}
      m == Median(col)
  IN IF bad = {} THEN col
     ELSE [i \in 1..Len(col) |-> IF i \in bad THEN m ELSE col[i]]

\* get_sales_data, lines 104-110: with n values of sum S and sum of squares
\* Q, std > 0 is n*Q - S*S > 0 and |v - mean| > 3 * std is
\* (n*v - S)^2 * (n - 1) > 9 * n * (n*Q - S*S); std of one value is NaN.
FixOutliers(col) ==
  LET vals == Values(col)
      n == Len(vals)
      S == SumSeq(vals)
      Q == SumSeq([i \in 1..n |-> vals[i] * vals[i]])
      D == n * Q - S * S
      outlier(v) == (n * v - S) * (n * v - S) * (n - 1) > 9 * n * D
      outliers == {i \in 1..Len(col) : col[i] # None /\ outlier(col[i][1])}
      m == Median(col)
  IN IF n < 2 \/ D <= 0 \/ outliers = {} THEN col
     ELSE [i \in 1..Len(col) |-> IF i \in outliers THEN m ELSE col[i]]

\* get_sales_data, lines 93-110, on one numeric column
CleanNumeric(col) == FixOutliers(FixNonPositive(FillMedian(col)))

\* astype(str), line 90: a missing id becomes the string "None"
astype_str(v) == IF v = None THEN Some("None") ELSE Some(Str(v[1]))

\* the place of an id string in sorted order (ids have one digit)
StrRank(s) == IF s = "None" THEN 10 ELSE CHOOSE i \in 0..9 : Str(i) = s

\* Series.mode()[0]: the most frequent value, the first in sorted order
Mode(col) ==
  LET count(v) == Cardinality({i \in 1..Len(col) : col[i] = v})
      present == Range(col) \ {None}
      top == {v \in present : \A w \in present : count(w) <= count(v)}
  IN CHOOSE v \in top : \A w \in top : StrRank(v[1]) <= StrRank(w[1])

\* get_sales_data, lines 113-115, on one categorical column
FillMode(col) ==
  IF IsNull(col) = {} THEN col
  ELSE [i \in 1..Len(col) |-> IF col[i] = None THEN Mode(col) ELSE col[i]]

\* order_date is counted in half months since January 1990: 0 is
\* datetime(1990, 1, 1), the min_date of line 120; ExtractionTime is the
\* datetime.now() of line 121. The fetched dates are first days of a month.
MinDate == 0
ExtractionTime == 8
DateYear(d) == 1990 + (d \div 24)
DateMonth(d) == ((d \div 2) % 12) + 1

\* get_sales_data, lines 123-126: the dates outside the window get the median
\* of the dates inside it, which is NaT (None) when there is none
CleanDates(col) ==
  LET invalid == {i \in 1..Len(col) :
                    col[i][1] < MinDate \/ col[i][1] > ExtractionTime}
      valid_dates == SelectSeq(col, LAMBDA x : x[1] >= MinDate /\ x[1] <= ExtractionTime)
      m == Median(valid_dates)
  IN IF invalid = {} THEN col
     ELSE [i \in 1..Len(col) |-> IF i \in invalid THEN m ELSE col[i]]

\* get_sales_data, lines 129-130: .dt.year and .dt.month, NaN for NaT
WithYearMonth(row) ==
  IF row.order_date = None THEN [row EXCEPT !.year = None, !.month = None]
  ELSE [row EXCEPT !.year = Some(DateYear(row.order_date[1])),
                   !.month = Some(DateMonth(row.order_date[1]))]

\* get_sales_data, line 134
Revenue(row) ==
  IF row.quantity = None \/ row.unit_price = None \/ row.discount = None
  THEN None
  ELSE Some(row.quantity[1] * row.unit_price[1] * (DiscountOne - row.discount[1]))

\* get_sales_data, lines 88-90, on one categorical column
AstypeStrCol(col) == [i \in 1..Len(col) |-> astype_str(col[i])]

\* get_sales_data, lines 75-137, on the rows the query fetched: each column
\* is converted and cleaned on its own, then revenue is computed row by row.
CleanSalesData(rows) ==
  IF rows = <<>> THEN rows
  ELSE
    LET cat == [c \in CatCols |-> FillMode(AstypeStrCol(Col(rows, c)))]
        num == [c \in NumericCols |-> CleanNumeric(Col(rows, c))]
        dates == CleanDates(Col(rows, "order_date"))
        cleaned == [i \in 1..Len(rows) |->
                      [c \in DOMAIN rows[i] |->
                         IF c \in CatCols THEN cat[c][i]
                         ELSE IF c \in NumericCols THEN num[c][i]
                         ELSE IF c = "order_date" THEN dates[i]
                         ELSE rows[i][c]]]
    IN [i \in 1..Len(rows) |->
          [WithYearMonth(cleaned[i]) EXCEPT !.revenue = Revenue(cleaned[i])]]

\* get_monthly_sales_summary, lines 151-174, on the cleaned frame: one row
\* per group of the key columns; groupby leaves out the rows with a missing
\* key, sum skips missing values, avg_price is kept as sum and count.
KeyCols == {"product_id", "category_id", "supplier_id", "year", "month"}
KeyOf(row) == [c \in KeyCols |-> row[c]]
Num(v) == IF v = None THEN 0 ELSE v[1]
ColumnSum(rows, c) == SumSeq([i \in 1..Len(rows) |-> Num(rows[i][c])])
MonthlySummary(df) ==
  LET keys == {k \in {KeyOf(df[i]) : i \in 1..Len(df)} :
                 \A c \in KeyCols : k[c] # None}
      group(k) == SelectSeq(df, LAMBDA r : KeyOf(r) = k)
  IN {[key |-> k,
       total_quantity |-> ColumnSum(group(k), "quantity"),
       total_revenue |-> ColumnSum(group(k), "revenue"),
       avg_price |-> [sum |-> ColumnSum(group(k), "unit_price"),
                      count |-> Len(Values(Col(group(k), "unit_price")))]] :
        k \in keys}

\* An order line as the query fetches it
FetchedRow(p, customer, quantity, unit_price, discount, order_date) ==
  [product_id |-> Some(p), category_id |-> Some(ProductTable[p].category_id),
   supplier_id |-> Some(ProductTable[p].supplier_id), customer_id |-> customer,
   quantity |-> quantity, unit_price |-> unit_price, discount |-> discount,
   order_date |-> Some(order_date), year |-> None, month |-> None,
   revenue |-> None]

\* The batches: some identical ordinary order lines of product 1 followed by
\* at most two order lines of product 2. Such a line is either odd in its
\* numbers (a missing, negative, larger or extreme quantity, a negative price,
\* a discount of a quarter or of twice the price) or odd in its keys (a
\* missing customer, a date before 1990 or after the extraction). A batch has
\* at most MaxRows rows, an odd number of them (every median after the first
\* is then a value of the column), or none.
BulkRow == FetchedRow(1, Some(1), Some(2), Some(4), Some(0), 2)
OddRows ==
  {FetchedRow(2, Some(2), q, u, d, 6) :
     q \in {None, Some(-2), Some(4), Some(200)},
     u \in {Some(4), Some(-4)}, d \in {Some(0), Some(2), Some(16)}}
  \cup
  {FetchedRow(2, c, Some(4), Some(4), Some(0), t) :
     c \in {None, Some(2)}, t \in {-2, 6, ExtractionTime + 2}}
Batches ==
  {[i \in 1..k |-> BulkRow] \o odd :
     k \in 0..MaxRows, odd \in UNION {[1..j -> OddRows] : j \in 0..2}}

InitExtraction ==
  /\ cIn \in {Some(b) : b \in {x \in Batches :
                                  Len(x) <= MaxRows /\ (Len(x) = 0 \/ Len(x) % 2 = 1)}}
  /\ cOut = None /\ cSum = None
  /\ db = OldDb /\ model = FreshModel /\ artifact = Absent /\ now = 1
  /\ last = Outcome("start", "", 0, 0, "skipped", "", None, None)
  /\ NoThreads
  /\ NoReconcile
  /\ NoAnswer

\* get_monthly_sales_summary on the fetched rows cIn: get_sales_data, lines
\* 75-137, then the aggregation of lines 151-174
ExtractionCall ==
  /\ cOut = None
  /\ cOut' = Some(CleanSalesData(cIn[1]))
  /\ cSum' = Some(MonthlySummary(CleanSalesData(cIn[1])))
  /\ UNCHANGED <<db, model, artifact, now, last, threadVars, reconVars, aIn,
                 aOut, cIn>>

NextExtraction == ExtractionCall

SpecExtraction == InitExtraction /\ [][NextExtraction]_vars

\* C18 (as claimed): in every row of every cleaned batch the quantity, the
\* unit_price and the factor 1 - discount are present and not negative, and so
\* is the revenue.
CleanedInputsNonNegative ==
  cOut # None =>
    \A i \in 1..Len(cOut[1]) :
      LET row == cOut[1][i]
      IN /\ row.quantity # None /\ row.quantity[1] >= 0
         /\ row.unit_price # None /\ row.unit_price[1] >= 0
         /\ row.discount # None /\ DiscountOne - row.discount[1] >= 0
         /\ row.revenue # None /\ row.revenue[1] >= 0

\* C19 (as claimed): cleaning a numeric column of a cleaned batch again
\* changes none of its values.
CleaningIdempotent ==
  cOut # None =>
    \A c \in NumericCols : CleanNumeric(Col(cOut[1], c)) = Col(cOut[1], c)

\* the most frequent values among the fetched ones of a categorical column
FetchedModes(col) ==
  LET count(v) == Cardinality({i \in 1..Len(col) : col[i] = v})
      present == Range(col) \ {None}
  IN {v \in present : \A w \in present : count(w) <= count(v)}

\* C20 (as claimed): in a cleaned batch no categorical column holds a missing
\* value or a placeholder for one; a row whose fetched id was missing carries
\* the most frequent fetched id of the column, every other row its own id.
CategoricalMissingGetMode ==
  cOut # None =>
    \A c \in CatCols : \A i \in 1..Len(cOut[1]) :
      LET fetched == Col(cIn[1], c)
          v == cOut[1][i][c]
      IN /\ v # None /\ v # Some("None")
         /\ fetched[i] # None => v = Some(Str(fetched[i][1]))
         /\ (fetched[i] = None /\ FetchedModes(fetched) # {}) =>
              v \in {Some(Str(m[1])) : m \in FetchedModes(fetched)}

\* C21 (as claimed): date cleaning keeps every row, and in every cleaned
\* batch every order_date lies in [1990-01-01, extraction time]: a date inside
\* the window is kept, a date outside it becomes the median of the dates
\* inside.
DatesInsideWindow ==
  cOut # None =>
    LET fetched == Col(cIn[1], "order_date")
        inside(t) == t[1] >= MinDate /\ t[1] <= ExtractionTime
    IN /\ Len(cOut[1]) = Len(cIn[1])
       /\ \A i \in 1..Len(cOut[1]) :
            LET t == cOut[1][i].order_date
            IN /\ t # None /\ inside(t)
               /\ inside(fetched[i]) => t = fetched[i]
               /\ ~inside(fetched[i]) => t = Median(SelectSeq(fetched, inside))

RECURSIVE TotalQuantity(_)
\* the sum of total_quantity over a set of summary rows
TotalQuantity(S) ==
  IF S = {} THEN 0
  ELSE LET a == CHOOSE x \in S : TRUE
       IN a.total_quantity + TotalQuantity(S \ {a})

\* C22 (as claimed): the monthly summary has one row for each key that occurs
\* in the cleaned rows, its total_quantity and total_revenue are the sums over
\* the cleaned rows of that key, and the total_quantity of all summary rows
\* add up to the quantity of all cleaned rows.
MonthlyTotalsMatch ==
  cSum # None =>
    LET df == cOut[1]
        group(k) == SelectSeq(df, LAMBDA r : KeyOf(r) = k)
    IN /\ {a.key : a \in cSum[1]} = {KeyOf(df[i]) : i \in 1..Len(df)}
       /\ \A a, b \in cSum[1] : a.key = b.key => a = b
       /\ \A a \in cSum[1] :
            /\ a.total_quantity = ColumnSum(group(a.key), "quantity")
            /\ a.total_revenue = ColumnSum(group(a.key), "revenue")
       /\ TotalQuantity(cSum[1]) = ColumnSum(df, "quantity")

\* ------------------------------------------------- properties of Spec
TrainOps == {"retrain", "cli_train"}
\* The object a train call ran on, after the call
TrainedObject == IF last.op = "cli_train" THEN last.obj[1] ELSE model
\* train() ran (the /retrain handler calls it only for a valid model_type)
TrainCalled(l) == l.op \in TrainOps /\ l.ret # "invalid_model_type"
AggregateRows == Cardinality(get_monthly_sales_summary(db))

\* C3 (as claimed): a train call with an unknown model_type ends in the
\* unknown-model-type error, leaves the five fields of the object as they were
\* (a script run starts from a fresh object) and does not write the artifact.
UnknownTypeReplacesNothing ==
  [][(last'.op = "cli_train" /\ last'.arg \notin ValidModels) =>
       /\ last'.ret = "unknown_model_type"
       /\ last'.obj = Some(FreshModel)
       /\ artifact' = artifact]_vars

\* C4: a train call over fewer than 10 aggregate rows returns the
\* insufficient-data error, leaves the pipeline of the object as it was and
\* does not write the artifact; over 10 rows or more it does not return that
\* error.
InsufficientDataRejected ==
  [][TrainCalled(last') =>
       /\ AggregateRows < 10 =>
            /\ last'.ret = "insufficient_data"
            /\ artifact' = artifact
            /\ last'.op = "retrain" => model'.model = model.model
            /\ last'.op = "cli_train" => last'.obj[1].model = None
       /\ AggregateRows >= 10 => last'.ret # "insufficient_data"]_vars

\* C4 witness: /retrain was refused for insufficient data while the process
\* held a pipeline and the database held some, but fewer than 10, rows.
InsufficientDataWitness ==
  /\ last.op = "retrain" /\ last.ret = "insufficient_data"
  /\ model.model # None
  /\ AggregateRows > 0 /\ AggregateRows < 10

\* The five fields of o are the five entries of the dictionary a
FieldsFrom(o, a) ==
  /\ ArtifactKeys \subseteq DOMAIN a.data
  /\ o.model = a.data.model /\ o.features = a.data.features
  /\ o.metrics = a.data.metrics /\ o.trained_date = a.data.trained_date
  /\ o.model_type = a.data.model_type

\* C5 (as claimed): a load either sets all five fields from the artifact and
\* reports success, or reports failure and leaves all five fields as they were.
LoadAllOrNothing ==
  [][/\ last'.load = "ok" => artifact.kind = "dict" /\ FieldsFrom(model', artifact)
     /\ last'.load = "failed" => model' = model]_vars

RequiredKeys == {"model", "features", "metrics", "trained_date"}
LoadRan == last.op \in {"predict", "model_info"} /\ last.load # "skipped"

\* C6 (as claimed): a load of an artifact that lacks any of the five entries
\* fails.
LoadRejectsAnyMissingKey ==
  (LoadRan /\ artifact.kind = "dict"
     /\ ~(ArtifactKeys \subseteq DOMAIN artifact.data))
  => last.load = "failed"

\* C6 (amended): a load of an artifact that lacks the fitted model, the
\* feature schema, the metrics or the trained_date fails; an artifact that
\* lacks only model_type is accepted, with model_type "decision_tree".
LoadRejectsMissingRequired ==
  (LoadRan /\ artifact.kind = "dict") =>
    /\ ~(RequiredKeys \subseteq DOMAIN artifact.data) => last.load = "failed"
    /\ (DOMAIN artifact.data = RequiredKeys) =>
         last.load = "ok" /\ model.model_type = "decision_tree"

\* C6 witness: a load was refused for an artifact that lacks trained_date
\* alone.
LoadRejectsWitness ==
  /\ LoadRan /\ last.load = "failed"
  /\ artifact.kind = "dict"
  /\ DOMAIN artifact.data = ArtifactKeys \ {"trained_date"}

\* C7: after every successful train, loading the artifact that train saved,
\* into a fresh object or into the trained object itself, succeeds and yields
\* the metrics, feature schema, model_type and trained_date train left.
SaveLoadRoundTrip ==
  (TrainCalled(last) /\ last.ret = "ok") =>
    \A o \in {FreshModel, TrainedObject} :
      LET L == load(o, artifact)
      IN /\ L.ok
         /\ L.obj.metrics = TrainedObject.metrics
         /\ L.obj.features = TrainedObject.features
         /\ L.obj.model_type = TrainedObject.model_type
         /\ L.obj.trained_date = TrainedObject.trained_date

\* C7 witness: a knn model was trained and saved, and the saved artifact
\* loads.
SaveLoadWitness ==
  /\ last.op = "retrain" /\ last.ret = "ok" /\ last.arg = "knn"
  /\ load(FreshModel, artifact).ok

\* The indicator column training creates for one id of a categorical column
TrainIndicator(col, id) == get_dummies({id}, col)[1]
ObservedCategories == {ProductTable[p].category_id : p \in db.sold}
ObservedSuppliers == {ProductTable[p].supplier_id : p \in db.sold}

\* C8 (as claimed): training on aggregates with categories {1,2} and suppliers
\* {1} gives the schema category_1, category_2, supplier_1 plus the five base
\* columns, and nothing else.
TrainedSchemaNames ==
  (TrainCalled(last) /\ last.ret = "ok"
     /\ ObservedCategories = {1, 2} /\ ObservedSuppliers = {1})
  => /\ TrainedObject.features # None
     /\ Range(TrainedObject.features[1]) =
          {"product_id", "year", "month", "total_revenue", "avg_price",
           "category_1", "category_2", "supplier_1"}

\* A /predict request reached the pipeline with a schema in place
Predicted ==
  /\ last.op = "predict" /\ last.status \in {200, 500} /\ last.X # None
  /\ model.features # None
CategoryColumns == {n \in Range(model.features[1]) : StartsWith(n, "category_")}
SupplierColumns == {n \in Range(model.features[1]) : StartsWith(n, "supplier_")}
OwnCategoryColumn ==
  TrainIndicator("category_id", ProductTable[last.product].category_id)
OwnSupplierColumn ==
  TrainIndicator("supplier_id", ProductTable[last.product].supplier_id)

\* C9 (as claimed): for a product whose category and supplier both have an
\* indicator column in the trained schema, the reconciled vector holds 1 in
\* these two columns and 0 in every other category or supplier column.
IndicatorsMatchTraining ==
  (Predicted /\ OwnCategoryColumn \in CategoryColumns
     /\ OwnSupplierColumn \in SupplierColumns)
  => /\ last.vector # None
     /\ \A n \in CategoryColumns \cup SupplierColumns :
          last.vector[1].val[n] =
            IF n \in {OwnCategoryColumn, OwnSupplierColumn} THEN 1 ELSE 0

\* C10: a /predict request for a product whose category has no indicator
\* column in the trained schema succeeds, and the vector handed to the pipeline
\* holds 0 in every category column of the schema.
UnseenCategoryAllZero ==
  (Predicted /\ OwnCategoryColumn \notin CategoryColumns)
  => /\ last.status = 200
     /\ last.vector # None
     /\ \A n \in CategoryColumns : last.vector[1].val[n] = 0

\* C10 witness: such a request was answered while the schema held category
\* columns of other products.
UnseenCategoryWitness ==
  /\ Predicted /\ last.status = 200
  /\ OwnCategoryColumn \notin CategoryColumns
  /\ CategoryColumns # {}

\* C13 (as claimed): a train call over a data source that cannot be reached
\* aborts with the extraction failure; it does not go on with an empty
\* extraction and report on that.
ExtractionFailureAborts ==
  (TrainCalled(last) /\ ~db.up) => last.ret = "extraction_error"

\* A /predict request that found a model, a reachable database and its product
Prepared ==
  /\ last.op = "predict" /\ last.load # "failed" /\ db.up
  /\ get_product(last.product) # None

\* C14 (as claimed): when the history query of a /predict request fails, the
\* preparation returns no frame, no default total_revenue is used and the
\* request does not answer with a prediction.
HistoryFailurePropagates ==
  (Prepared /\ last.req[1].hist = "fails")
  => last.X = None /\ last.status # 200

\* The customer lookup of the request raised and nothing else did
CustomerLookupFailed ==
  /\ Prepared
  /\ last.req[1].cust = <<"fails">>
  /\ last.req[1].hist = "ok" /\ last.req[1].prep

\* C15: when the customer lookup of a /predict request fails, the frame has
\* no customer_country column and is otherwise the frame of the same request
\* without a customer, and the request is answered with a prediction by every
\* model that holds a schema.
CustomerFailureTolerated ==
  CustomerLookupFailed =>
    LET r == last.req[1]
    IN /\ last.X # None
       /\ "customer_country" \notin Range(last.X[1].cols)
       /\ last.X[1] = ProductFeatures(db, r.p, r.month, r.quantity, r.hist)
       /\ last.status # 400
       /\ model.features # None => last.status = 200

\* C15 witness: a request whose customer lookup failed was answered with a
\* prediction.
CustomerFailureWitness == CustomerLookupFailed /\ last.status = 200

\* C16 (as claimed): total_revenue is unit_price * quantity when the request
\* gives a quantity; otherwise it is the historical average of a product with
\* order lines and unit_price * 10 for a product without any.
TotalRevenueAsSpecified ==
  (Prepared /\ last.X # None /\ last.req[1].hist = "ok") =>
    LET r == last.req[1]
        price == ProductTable[r.p].unit_price
    IN last.X[1].val["total_revenue"] =
         IF r.quantity # None THEN price * r.quantity[1]
         ELSE IF r.p \in db.sold THEN HistAvgRevenue(r.p)
         ELSE price * 10

\* C17 (as claimed): /predict answers 503 when no model is in memory and none
\* can be loaded, 404 or 400 when a model is there and the product is not, and
\* 500, never a client error, when the feature preparation or the prediction
\* fails unexpectedly.
PredictFailureClasses ==
  last.op = "predict" =>
    /\ last.load = "failed" => last.status = 503
    /\ (last.load # "failed" /\ db.up /\ get_product(last.product) = None)
         => last.status \in {404, 400}
    /\ (Prepared /\ ~last.req[1].prep) => last.status = 500
    /\ (last.load # "failed" /\ ~db.up) => last.status = 500

\* C23 (as claimed): train does not write the artifact itself, and a train
\* call that did not succeed leaves the pipeline of the object as it was
\* before the call (a script run starts from an object without a pipeline).
TrainDoesNotPersist ==
  [][TrainCalled(last') =>
       /\ artifact' = artifact
       /\ (last'.op = "retrain" /\ last'.ret # "ok") => model'.model = model.model
       /\ (last'.op = "cli_train" /\ last'.ret # "ok") =>
            last'.obj[1].model = None]_vars

\* C24 (as claimed): whenever the process holds a pipeline, the schema it
\* holds is the column list this pipeline was fitted on and the model_type it
\* holds is the type of this pipeline's regressor.
ModelSchemaConsistent ==
  model.model # None =>
    /\ model.features = model.model[1].fitted_on
    /\ model.model_type = model.model[1].regressor

\* C25: a /predict request served by a process that holds a pipeline leaves
\* the five fields of the model object and the artifact as they were.
PredictReadOnly ==
  [][(last'.op = "predict" /\ model.model # None) =>
       model' = model /\ artifact' = artifact]_vars

\* C25 witness: such a request was answered with a prediction although its
\* frame had columns outside the schema and lacked columns of the schema.
PredictReadOnlyWitness ==
  /\ last.op = "predict" /\ last.load = "skipped" /\ last.status = 200
  /\ model.features # None
  /\ Range(last.X[1].cols) \ Range(model.features[1]) # {}
  /\ Range(model.features[1]) \ Range(last.X[1].cols) # {}

ReadOps == {"predict", "model_info"}
\* The artifact is a full dictionary that was written after the process got
\* its model
ArtifactRewritten ==
  /\ model.model # None
  /\ artifact.kind = "dict" /\ ArtifactKeys \subseteq DOMAIN artifact.data
  /\ artifact.data.trained_date # model.trained_date

\* C26: /predict and /model_info read the artifact only when the process
\* holds no pipeline; when it holds one, they run no load and leave the model
\* object as it is, also when the artifact has been rewritten meanwhile.
RegistryReadOnlyWhenEmpty ==
  [][last'.op \in ReadOps =>
       /\ last'.load = "skipped" <=> model.model # None
       /\ model.model # None => model' = model]_vars

\* C26 witness: a request was served from the model in memory while the
\* artifact held a model trained later.
RegistryWitness ==
  /\ last.op \in ReadOps /\ last.load = "skipped"
  /\ ArtifactRewritten

\* ------------------------------- /retrain and /predict in two threads
\* The handlers are plain def functions, which the server runs in worker
\* threads: a /retrain and a /predict request interleave between any two
\* statements. The process starts with the model of OldArtifact loaded.

InitConc ==
  /\ db \in DbStates
  /\ model = LoadedOldModel
  /\ artifact = OldArtifact
  /\ now = 1
  /\ last = Outcome("start", "", 0, 0, "skipped", "", None, None)
  /\ tpc = "idle" /\ tloc = None
  /\ ppc = "idle" /\ ploc = None
  /\ NoReconcile
  /\ NoAnswer /\ NoExtraction

\* The locals of the train call: its argument, X, the object as it was when
\* the call began, and what the call returned.
TrainLocals(mt, X, old, ret) == Some([mt |-> mt, X |-> X, old |-> old, ret |-> ret])
TrainReturns(pc, ret) ==
  /\ tpc' = pc
  /\ tloc' = Some([tloc[1] EXCEPT !.ret = ret])

\* retrain_model, lines 321-333, and train, line 49
T_Start(mt) ==
  /\ tpc = "idle"
  /\ IF mt \notin ValidModels
     THEN /\ tpc' = "done"
          /\ tloc' = TrainLocals(mt, None, model, "invalid_model_type")
          /\ UNCHANGED model
     ELSE /\ tpc' = "prepare"
          /\ tloc' = TrainLocals(mt, None, model, "")
          /\ model' = SetModelType(model, mt)
  /\ UNCHANGED <<db, artifact, now, last, ppc, ploc, reconVars, pureVars>>

\* train, lines 55-61
T_Prepare ==
  /\ tpc = "prepare"
  /\ LET X == prepare_training_data(db)
     IN IF InsufficientData(X)
        THEN TrainReturns("done", "insufficient_data") /\ UNCHANGED model
        ELSE /\ tpc' = "assign"
             /\ tloc' = Some([tloc[1] EXCEPT !.X = X])
             /\ model' = SetFeatures(model, X)
  /\ UNCHANGED <<db, artifact, now, last, ppc, ploc, reconVars, pureVars>>

\* train, lines 77-95
T_Assign ==
  /\ tpc = "assign"
  /\ IF ~KnownModelType(tloc[1].mt)
     THEN TrainReturns("done", "unknown_model_type") /\ UNCHANGED model
     ELSE /\ tpc' = "fit"
          /\ model' = AssignPipeline(model, tloc[1].mt)
          /\ UNCHANGED tloc
  /\ UNCHANGED <<db, artifact, now, last, ppc, ploc, reconVars, pureVars>>

\* train, line 96
T_Fit ==
  /\ tpc = "fit"
  /\ tpc' = "evaluate"
  /\ model' = FitPipeline(model, tloc[1].X)
  /\ UNCHANGED <<db, artifact, now, last, tloc, ppc, ploc, reconVars, pureVars>>

\* train, lines 99-118
T_Evaluate ==
  /\ tpc = "evaluate"
  /\ tpc' = "stamp"
  /\ model' = SetMetrics(model, tloc[1].X, tloc[1].mt)
  /\ UNCHANGED <<db, artifact, now, last, tloc, ppc, ploc, reconVars, pureVars>>

\* train, line 121
T_Stamp ==
  /\ tpc = "stamp"
  /\ tpc' = "save"
  /\ model' = SetTrainedDate(model, now)
  /\ now' = now + 1
  /\ UNCHANGED <<db, artifact, last, tloc, ppc, ploc, reconVars, pureVars>>

\* train, lines 124-126
T_Save ==
  /\ tpc = "save"
  /\ artifact' = save(model)
  /\ TrainReturns("done", "ok")
  /\ UNCHANGED <<db, model, now, last, ppc, ploc, reconVars, pureVars>>

\* The locals of the predict request: the frame X, the HTTP status (0 while
\* running) and what the request read from the model object: the schema it
\* reordered by, the pipeline it called, the metrics it took r2_score from.
PredictLocals(p, X, status, features, pipeline, metrics) ==
  Some([product |-> p, X |-> X, status |-> status, features |-> features,
        pipeline |-> pipeline, metrics |-> metrics])
PredictAnswers(status) ==
  /\ ppc' = "done"
  /\ ploc' = Some([ploc[1] EXCEPT !.status = status])

\* predict_sales, lines 215-251
P_Start(r) ==
  /\ ppc \in {"idle", "done"}
  /\ LET L == EnsureLoaded(model, artifact)
         X == prepare_prediction_features(db, r.p, r.month, r.quantity,
                                          r.hist, r.cust)
         stops(status) ==
           /\ ppc' = "done"
           /\ ploc' = PredictLocals(r.p, None, status, None, None, None)
     IN /\ model' = L.obj
        /\ IF ~L.ok THEN stops(503)
           ELSE IF ~db.up THEN stops(500)
           ELSE IF get_product(r.p) = None THEN stops(404)
           ELSE IF ~r.prep THEN stops(400)
           ELSE /\ ppc' = "enter"
                /\ ploc' = PredictLocals(r.p, Some(X), 0, None, None, None)
  /\ UNCHANGED <<db, artifact, now, last, tpc, tloc, reconVars, pureVars>>

\* predict, lines 138-145
P_Enter ==
  /\ ppc = "enter"
  /\ LET L == EnsureLoaded(model, artifact)
     IN /\ model' = L.obj
        /\ IF L.obj.model = None THEN PredictAnswers(500)
           ELSE /\ ppc' = IF L.obj.features # None THEN "keep" ELSE "call"
                /\ UNCHANGED ploc
  /\ UNCHANGED <<db, artifact, now, last, tpc, tloc, reconVars, pureVars>>

\* predict, line 147
P_Keep ==
  /\ ppc = "keep"
  /\ ppc' = "pad"
  /\ ploc' = Some([ploc[1] EXCEPT
                     !.X = Some(KeepKnown(ploc[1].X[1], model.features[1]))])
  /\ UNCHANGED <<db, model, artifact, now, last, tpc, tloc, reconVars, pureVars>>

\* predict, lines 150-152
P_Pad ==
  /\ ppc = "pad"
  /\ ppc' = "reorder"
  /\ ploc' = Some([ploc[1] EXCEPT
                     !.X = Some(PadMissing(ploc[1].X[1], model.features[1]))])
  /\ UNCHANGED <<db, model, artifact, now, last, tpc, tloc, reconVars, pureVars>>

\* predict, line 155; the KeyError ends the request at routes line 288
P_Reorder ==
  /\ ppc = "reorder"
  /\ LET R == Reorder(ploc[1].X[1], model.features[1])
     IN IF R = None
        THEN /\ ppc' = "done"
             /\ ploc' = Some([ploc[1] EXCEPT !.status = 500,
                                             !.features = model.features])
        ELSE /\ ppc' = "call"
             /\ ploc' = Some([ploc[1] EXCEPT !.X = R,
                                             !.features = model.features])
  /\ UNCHANGED <<db, model, artifact, now, last, tpc, tloc, reconVars, pureVars>>

\* predict, line 158; an exception ends the request at routes line 288
P_Call ==
  /\ ppc = "call"
  /\ IF PipelinePredictOk(model.model[1], ploc[1].X[1].cols)
     THEN /\ ppc' = "confidence"
          /\ ploc' = Some([ploc[1] EXCEPT !.pipeline = model.model])
     ELSE /\ ppc' = "done"
          /\ ploc' = Some([ploc[1] EXCEPT !.status = 500,
                                          !.pipeline = model.model])
  /\ UNCHANGED <<db, model, artifact, now, last, tpc, tloc, reconVars, pureVars>>

\* predict_sales, lines 262-282
P_Confidence ==
  /\ ppc = "confidence"
  /\ ppc' = "done"
  /\ ploc' = Some([ploc[1] EXCEPT !.status = 200,
                                  !.metrics = Some(model.metrics)])
  /\ UNCHANGED <<db, model, artifact, now, last, tpc, tloc, reconVars, pureVars>>

NextConc ==
  \/ \E mt \in RequestTypes : T_Start(mt)
  \/ T_Prepare
  \/ T_Assign
  \/ T_Fit
  \/ T_Evaluate
  \/ T_Stamp
  \/ T_Save
  \/ \E r \in PredictRequests : P_Start(r)
  \/ P_Enter
  \/ P_Keep
  \/ P_Pad
  \/ P_Reorder
  \/ P_Call
  \/ P_Confidence

SpecConc == InitConc /\ [][NextConc]_vars

\* What a request would read from the full model object v
SeesInFull(v) ==
  /\ ploc[1].features = v.features
  /\ ploc[1].pipeline = v.model
  /\ ploc[1].metrics = Some(v.metrics)

\* C2 (as claimed): a /predict request that reached the model, once it and a
\* successful /retrain have both ended, has read the schema, the pipeline and
\* the metrics of the model as it was before the retrain or of the model as it
\* is after it, never a mix of the two and never an unfitted pipeline.
PredictSeesOneModel ==
  (/\ ppc = "done" /\ ploc[1].X # None
   /\ tpc = "done" /\ tloc[1].ret = "ok")
  => SeesInFull(tloc[1].old) \/ SeesInFull(model)

\* C27: the sales-summary endpoint filters by product and by category: called
\* with an integer product_id (or category_id) for which monthly summary rows
\* exist, it returns exactly the summary rows whose product_id (or
\* category_id) equals that id, and it answers 404 only when no such row
\* exists.
SummaryMatching(d, f) ==
  {r \in get_monthly_sales_summary(d) :
     /\ f.product_id # None => r.product_id = Str(f.product_id[1])
     /\ f.category_id # None => r.category_id = Str(f.category_id[1])}

SummaryFilterExact ==
  last.op = "sales_summary" =>
    LET matching == SummaryMatching(db, last.req[1])
    IN /\ matching # {} => last.status = 200 /\ last.rows = Some(matching)
       /\ last.status = 404 => matching = {}

====
